---- MODULE Spec2Model ----
(***************************************************************************)
(* A model of scaffold.py, the FastAPI DDD project generator.              *)
(*                                                                         *)
(* The state is the filesystem below the --path argument (the set of       *)
(* directories and the map from regular files to their text), the          *)
(* arguments of the run (project name, force flag) and the position of     *)
(* scaffold() in its straight-line code.  A path is the sequence of its    *)
(* segments relative to --path.  Every filesystem call of scaffold() is    *)
(* one step, so that a run can be observed, fail or be terminated between  *)
(* any two of them.                                                        *)
(*                                                                         *)
(* Entries are of the kind the program expects at their path: regular      *)
(* files at file paths, directories at directory paths.                    *)
(***************************************************************************)
EXTENDS Naturals, Sequences, FiniteSets, TLC

VARIABLES
    dirs,       \* the directories that exist
    files,      \* regular files: path -> text
    name,       \* --name
    force,      \* --force
    pc,         \* position in scaffold(): guard, mkdir, init, file, print, done
    i,          \* index into the directory list or into the artifact list
    outcome,    \* none (running), ok, abort (sys.exit(1)), error (uncaught
                \* OSError), killed (terminated from outside)
    run,        \* "first" or "rerun": which invocation of the program this is
    dirs0,      \* history: the directories when this invocation started
    files0,     \* history: the files when this invocation started
    written,    \* history: paths whose write_text was executed in this run
    skipped,    \* history: paths write_file / write_init left alone
    failed,     \* history: paths whose write raised
    prev        \* history: the first invocation, as seen by the re-run

vars == <<dirs, files, name, force, pc, i, outcome, run,
          dirs0, files0, written, skipped, failed, prev>>

\* The number of entries that may exist below --path before the first run.
MaxPre == 1

\* Project names the command line may pass; argparse accepts an empty string.
Names == {"", "billing"}

-----------------------------------------------------------------------------
(* Paths (pathlib) *)

\* Path(project_path) / project_name; joining "" leaves the path unchanged.
Root(n) == IF n = "" THEN <<>> ELSE <<n>>

Parent(p) == SubSeq(p, 1, Len(p) - 1)

\* p and all its ancestors, down to --path itself.
Prefixes(p) == { SubSeq(p, 1, k) : k \in 0..Len(p) }

IsUnder(p, r) == Len(p) > Len(r) /\ SubSeq(p, 1, Len(r)) = r

\* Path.exists()
Exists(d, f, p) == p \in d \/ p \in DOMAIN f

\* any(root.iterdir())
HasEntry(d, f, r) ==
    \E p \in d \cup DOMAIN f : Len(p) = Len(r) + 1 /\ IsUnder(p, r)

\* One os.mkdir of Path.mkdir(parents=True, exist_ok=True): the shallowest
\* missing directory on the way to p is created.
MkdirStep(d, p) ==
    LET missing == Prefixes(p) \ d
    IN  IF missing = {} THEN d
        ELSE d \cup { CHOOSE q \in missing : \A r \in missing : Len(q) <= Len(r) }

\* Path.write_text: the file at p holds c afterwards, every other file is
\* as before.
WriteTextClobber(f, p, c) == [q \in {p} |-> c]
WriteText(f, p, c) == [q \in DOMAIN f \cup {p} |-> IF q = p THEN c ELSE f[q]]

-----------------------------------------------------------------------------
(* Templates: each text is opaque, named after its template; two of them   *)
(* embed the project name.                                                 *)

MarkerText == <<"# Auto-generated __init__.py">>

make_pyproject(n) == <<"pyproject", n>>
make_requirements == <<"requirements">>
make_importlinter == <<"importlinter">>
make_dockerfile == <<"dockerfile">>
make_compose(n) == <<"compose", n>>
make_makefile == <<"makefile">>
make_gitignore == <<"gitignore">>
make_pytest_ini == <<"pytest_ini">>
make_ruff_toml == <<"ruff_toml">>
make_requirements_tests == <<"requirements_tests">>
make_precommit == <<"precommit">>
make_env_example == <<"env_example">>
make_main == <<"main">>
make_dependencies == <<"dependencies">>
make_schemas == <<"schemas">>
make_sample_endpoint == <<"sample_endpoint">>
make_test_health == <<"test_health">>
make_config == <<"config">>

-----------------------------------------------------------------------------
(* scaffold(): the directory list and the artifacts, in program order *)

DirList ==
    << <<"src">>,
       <<"src", "api">>,
       <<"src", "api", "v1", "endpoints">>,
       <<"src", "api", "v1">>,
       <<"src", "application">>,
       <<"src", "domain">>,
       <<"src", "infrastructure">>,
       <<"tests", "api">>,
       <<"tests", "application">>,
       <<"tests", "domain">>,
       <<"tests", "infrastructure">> >>

Art(p, c) == [path |-> p, content |-> c]

CatalogDup(n) ==
    << Art(<<"pyproject.toml">>, make_pyproject(n)),
       Art(<<"requirements.txt">>, make_requirements),
       Art(<<"requirements-tests.txt">>, make_requirements_tests),
       Art(<<"Dockerfile">>, make_dockerfile),
       Art(<<"infra", "docker-compose.yml">>, make_compose(n)),
       Art(<<"Makefile">>, make_makefile),
       Art(<<".gitignore">>, make_gitignore),
       Art(<<"pytest.ini">>, make_pytest_ini),
       Art(<<".importlinter">>, make_importlinter),
       Art(<<"ruff.toml">>, make_ruff_toml),
       Art(<<".pre-commit-config.yaml">>, make_precommit),
       Art(<<".env.example">>, make_env_example),
       Art(<<".env">>, make_env_example),
       Art(<<"src", "main.py">>, make_main),
       Art(<<"src", "api", "v1", "dependencies.py">>, make_dependencies),
       Art(<<"src", "api", "v1", "schemas.py">>, make_schemas),
       Art(<<"src", "api", "v1", "endpoints", "health.py">>, make_sample_endpoint),
       Art(<<"src", "config.py">>, make_config),
       Art(<<".env">>, make_env_example),
       Art(<<"tests", "api", "test_health.py">>, make_test_health) >>

Catalog(n) ==
    << Art(<<"pyproject.toml">>, make_pyproject(n)),
       Art(<<"requirements.txt">>, make_requirements),
       Art(<<"requirements-tests.txt">>, make_requirements_tests),
       Art(<<"Dockerfile">>, make_dockerfile),
       Art(<<"infra", "docker-compose.yml">>, make_compose(n)),
       Art(<<"Makefile">>, make_makefile),
       Art(<<".gitignore">>, make_gitignore),
       Art(<<"pytest.ini">>, make_pytest_ini),
       Art(<<".importlinter">>, make_importlinter),
       Art(<<"ruff.toml">>, make_ruff_toml),
       Art(<<".pre-commit-config.yaml">>, make_precommit),
       Art(<<".env.example">>, make_env_example),
       Art(<<".env">>, make_env_example),
       Art(<<"src", "main.py">>, make_main),
       Art(<<"src", "api", "v1", "dependencies.py">>, make_dependencies),
       Art(<<"src", "api", "v1", "schemas.py">>, make_schemas),
       Art(<<"src", "api", "v1", "endpoints", "health.py">>, make_sample_endpoint),
       Art(<<"src", "config.py">>, make_config),
       Art(<<"src", ".env">>, make_env_example),
       Art(<<"tests", "api", "test_health.py">>, make_test_health) >>

\* root / d, for the directory at position k of the list
DirPath(n, k) == Root(n) \o DirList[k]

\* path / "__init__.py"
InitFile(d) == d \o <<"__init__.py">>

\* root / <artifact path>, for the artifact at position k
ArtPath(n, k) == Root(n) \o Catalog(n)[k].path

ArtContent(n, k) == Catalog(n)[k].content

DirIdx == 1..Len(DirList)
ArtIdx(n) == 1..Len(Catalog(n))

-----------------------------------------------------------------------------
(* The decisions of the program *)

\* scaffold(): the root guard.
GuardFlagInverted(d, f, r, frc) == r \in d /\ HasEntry(d, f, r) /\ frc
GuardEmptinessInverted(d, f, r, frc) == r \in d /\ ~HasEntry(d, f, r) /\ ~frc
GuardTrips(d, f, r, frc) == r \in d /\ HasEntry(d, f, r) /\ ~frc

\* write_file: whether write_text is reached.
WriteFileIgnoresForce(exists, frc) == ~exists
WriteFileWrites(exists, frc) == ~(exists /\ ~frc)

\* write_init: whether write_text is reached.
WriteInitDropsNot(exists, frc) == exists \/ frc
WriteInitWrites(exists, frc) == ~exists \/ frc

\* The force argument of write_init at its only call site, write_init(d):
\* the parameter keeps its default.
InitForceArg(frc) == FALSE

-----------------------------------------------------------------------------
(* Initial states *)

RECURSIVE SubsetsUpTo(_, _)
SubsetsUpTo(U, k) ==
    IF k = 0 THEN {{}}
    ELSE LET S == SubsetsUpTo(U, k - 1)
         IN  S \cup { T \cup {x} : T \in S, x \in U }

\* Text a file may hold before the run.
Stale == <<"stale">>

\* Files that may exist below the root before the run: markers, artifacts
\* and two files the program knows nothing about.
Targets(n) ==
    { InitFile(DirPath(n, k)) : k \in DirIdx } \cup { ArtPath(n, k) : k \in ArtIdx(n) }

OtherFiles(n) == { Root(n) \o <<"README.md">>, Root(n) \o <<"src", "domain", "model.py">> }

\* Directories that may exist before the run without holding a file.
PreDirChoices(n) ==
    { {}, {<<>>}, {Root(n)}, {Root(n) \o <<"docs">>}, {Root(n) \o <<"src">>} }

Closure(D) == UNION { Prefixes(p) : p \in D }

NoPrev == [force |-> FALSE, outcome |-> "none", dirs |-> {}, files |-> <<>>,
           dirs0 |-> {}, files0 |-> <<>>]

InitWith(n, frc, D, F) ==
    /\ name = n
    /\ force = frc
    /\ dirs = Closure(D \cup { Parent(p) : p \in F })
    /\ files = [p \in F |-> Stale]
    /\ pc = "guard"
    /\ i = 0
    /\ outcome = "none"
    /\ run = "first"
    /\ dirs0 = dirs
    /\ files0 = files
    /\ written = {}
    /\ skipped = {}
    /\ failed = {}
    /\ prev = NoPrev

\* Any filesystem with at most MaxPre files below the root.
Init ==
    \E n \in Names, frc \in BOOLEAN :
        \E D \in PreDirChoices(n), F \in SubsetsUpTo(Targets(n) \cup OtherFiles(n), MaxPre) :
            InitWith(n, frc, D, F)

\* A destination root that is absent or empty.
InitEmpty ==
    \E n \in Names, frc \in BOOLEAN :
        \E D \in { {}, {<<>>}, {Root(n)} } : InitWith(n, frc, D, {})

-----------------------------------------------------------------------------
(* Steps of scaffold() *)

Ends(o) == pc' = "done" /\ outcome' = o

\* if root.exists() and any(root.iterdir()) and not force: sys.exit(1)
RootGuard ==
    /\ pc = "guard"
    /\ IF GuardTrips(dirs, files, Root(name), force)
       THEN Ends("abort") /\ i' = i
       ELSE pc' = "mkdir" /\ i' = 1 /\ outcome' = outcome
    /\ UNCHANGED <<dirs, files, name, force, run, dirs0, files0,
                   written, skipped, failed, prev>>

\* d.mkdir(parents=True, exist_ok=True), one directory at a time
Mkdir ==
    /\ pc = "mkdir"
    /\ dirs' = MkdirStep(dirs, DirPath(name, i))
    /\ pc' = IF DirPath(name, i) \in dirs' THEN "init" ELSE "mkdir"
    /\ UNCHANGED <<files, name, force, i, outcome, run, dirs0, files0,
                   written, skipped, failed, prev>>

\* write_init(d)
WriteInit ==
    /\ pc = "init"
    /\ LET p == InitFile(DirPath(name, i))
       IN  IF WriteInitWrites(Exists(dirs, files, p), InitForceArg(force))
           THEN /\ files' = WriteText(files, p, MarkerText)
                /\ written' = written \cup {p}
                /\ skipped' = skipped
           ELSE /\ files' = files
                /\ written' = written
                /\ skipped' = skipped \cup {p}
    /\ IF i < Len(DirList)
       THEN pc' = "mkdir" /\ i' = i + 1
       ELSE pc' = "file" /\ i' = 1
    /\ UNCHANGED <<dirs, name, force, outcome, run, dirs0, files0, failed, prev>>

\* write_file(root / path, content, force); the parent directories are made
\* first, one at a time.
WriteFile ==
    /\ pc = "file"
    /\ LET p == ArtPath(name, i)
       IN  IF Parent(p) \notin dirs
           THEN /\ dirs' = MkdirStep(dirs, Parent(p))
                /\ UNCHANGED <<files, written, skipped, pc, i>>
           ELSE /\ dirs' = dirs
                /\ IF WriteFileWrites(Exists(dirs, files, p), force)
                   THEN /\ files' = WriteText(files, p, ArtContent(name, i))
                        /\ written' = written \cup {p}
                        /\ skipped' = skipped
                   ELSE /\ files' = files
                        /\ written' = written
                        /\ skipped' = skipped \cup {p}
                /\ IF i < Len(Catalog(name))
                   THEN pc' = "file" /\ i' = i + 1
                   ELSE pc' = "print" /\ i' = i
    /\ UNCHANGED <<name, force, outcome, run, dirs0, files0, failed, prev>>

\* print("[OK] Project generated at: ...") and return: exit code 0
Finish ==
    /\ pc = "print"
    /\ Ends("ok")
    /\ UNCHANGED <<dirs, files, name, force, i, run, dirs0, files0,
                   written, skipped, failed, prev>>

\* Nothing in scaffold() or main() catches an exception: an OSError raised
\* by mkdir ends the process with a traceback.
MkdirRaises ==
    /\ pc = "mkdir"
    /\ Ends("error")
    /\ UNCHANGED <<dirs, files, name, force, i, run, dirs0, files0,
                   written, skipped, failed, prev>>

\* The same for the write_text of write_init (the file cannot be opened).
WriteInitRaises ==
    /\ pc = "init"
    /\ WriteInitWrites(Exists(dirs, files, InitFile(DirPath(name, i))), InitForceArg(force))
    /\ failed' = failed \cup {InitFile(DirPath(name, i))}
    /\ Ends("error")
    /\ UNCHANGED <<dirs, files, name, force, i, run, dirs0, files0,
                   written, skipped, prev>>

\* The same for the write_text of write_file (permission denied: the file
\* cannot be opened and keeps its content).
WriteFileRaises ==
    /\ pc = "file"
    /\ Parent(ArtPath(name, i)) \in dirs
    /\ WriteFileWrites(Exists(dirs, files, ArtPath(name, i)), force)
    /\ failed' = failed \cup {ArtPath(name, i)}
    /\ Ends("error")
    /\ UNCHANGED <<dirs, files, name, force, i, run, dirs0, files0,
                   written, skipped, prev>>

Next ==
    \/ RootGuard
    \/ Mkdir
    \/ WriteInit
    \/ WriteFile
    \/ Finish
    \/ MkdirRaises
    \/ WriteInitRaises
    \/ WriteFileRaises

\* One invocation, from any filesystem.
Spec == Init /\ [][Next]_vars

-----------------------------------------------------------------------------
(* Two invocations: the first may be terminated from outside, the second   *)
(* is given the same path and name.                                        *)

\* The process is terminated from outside between two filesystem calls of
\* scaffold(), after the guard (before it, nothing has been touched).
Kill ==
    /\ run = "first"
    /\ pc \in {"mkdir", "init", "file", "print"}
    /\ Ends("killed")
    /\ UNCHANGED <<dirs, files, name, force, i, run, dirs0, files0,
                   written, skipped, failed, prev>>

\* The program is started again on what the first invocation left.
Rerun ==
    /\ run = "first"
    /\ pc = "done"
    /\ run' = "rerun"
    /\ prev' = [force |-> force, outcome |-> outcome, dirs |-> dirs, files |-> files,
                dirs0 |-> dirs0, files0 |-> files0]
    /\ force' \in BOOLEAN
    /\ pc' = "guard"
    /\ i' = 0
    /\ outcome' = "none"
    /\ dirs0' = dirs
    /\ files0' = files
    /\ written' = {}
    /\ skipped' = {}
    /\ failed' = {}
    /\ UNCHANGED <<dirs, files, name>>

NextRerun ==
    \/ RootGuard
    \/ Mkdir
    \/ WriteInit
    \/ WriteFile
    \/ Finish
    \/ MkdirRaises
    \/ WriteInitRaises
    \/ WriteFileRaises
    \/ Kill
    \/ Rerun

SpecRerun == InitEmpty /\ [][NextRerun]_vars

-----------------------------------------------------------------------------
(* Sanity of the model *)

TypeOK ==
    /\ name \in Names
    /\ force \in BOOLEAN
    /\ pc \in {"guard", "mkdir", "init", "file", "print", "done"}
    /\ outcome \in {"none", "ok", "abort", "error", "killed"}
    /\ run \in {"first", "rerun"}
    /\ (pc = "done") = (outcome # "none")
    /\ \A p \in dirs \cup DOMAIN files : p = <<>> \/ Parent(p) \in dirs
    /\ dirs \cap DOMAIN files = {}

-----------------------------------------------------------------------------
(* Properties *)

Unchanged == dirs = dirs0 /\ files = files0

\* Every declared directory with its marker, every artifact at its path.
Complete ==
    /\ \A k \in DirIdx :
          /\ DirPath(name, k) \in dirs
          /\ InitFile(DirPath(name, k)) \in DOMAIN files
    /\ \A k \in ArtIdx(name) : ArtPath(name, k) \in DOMAIN files

ArtPaths == { ArtPath(name, k) : k \in ArtIdx(name) }

MarkerPaths == { InitFile(DirPath(name, k)) : k \in DirIdx }

\* C1: when the root exists with at least one entry and force is off, the
\* run never leaves the guard except into sys.exit(1), and in every state
\* of it the filesystem is the one it started from.
C1_RootGuard ==
    (run = "first" /\ Root(name) \in dirs0 /\ HasEntry(dirs0, files0, Root(name)) /\ ~force)
        => /\ Unchanged
           /\ written = {}
           /\ pc = "guard" \/ (pc = "done" /\ outcome = "abort")

C1_Witness ==
    /\ HasEntry(dirs0, files0, Root(name))
    /\ ~force
    /\ pc = "done"
    /\ outcome = "abort"

\* C2, as claimed: after a first run from an empty or absent root that
\* ended with exit code 0 (force off), the second run with force off ends
\* with exit code 0, having written nothing, on an unchanged filesystem.
C2_Original ==
    (run = "rerun" /\ prev.outcome = "ok" /\ ~prev.force /\ ~force /\ pc = "done")
        => /\ outcome = "ok"
           /\ written = {}
           /\ dirs = prev.dirs /\ files = prev.files

\* C2, amended: that second run is stopped by the root guard with exit
\* code 1; it reaches no write_file and no write_init (nothing is written,
\* nothing is skipped) and the filesystem stays what the first run left.
C2_RerunAborts ==
    (run = "rerun" /\ prev.outcome = "ok" /\ ~prev.force /\ ~force)
        => /\ dirs = prev.dirs /\ files = prev.files
           /\ written = {} /\ skipped = {}
           /\ pc = "guard" \/ (pc = "done" /\ outcome = "abort")

C2_Witness ==
    /\ run = "rerun" /\ prev.outcome = "ok" /\ ~prev.force /\ ~force
    /\ Complete
    /\ pc = "done" /\ outcome = "abort"

\* C3: a run with force on that ends with exit code 0 leaves every artifact
\* holding the text its template renders for the project name, whatever the
\* files held before.
C3_OverwriteCorrect ==
    (force /\ pc = "done" /\ outcome = "ok")
        => \A k \in ArtIdx(name) :
              /\ ArtPath(name, k) \in DOMAIN files
              /\ files[ArtPath(name, k)] = ArtContent(name, k)

C3_Witness ==
    /\ force /\ pc = "done" /\ outcome = "ok"
    /\ \E p \in ArtPaths \cap DOMAIN files0 : files0[p] = Stale /\ files[p] # Stale

\* C4: a run that ends with exit code 0 leaves every declared directory
\* with its __init__.py and every artifact at its path.
C4_Complete == (pc = "done" /\ outcome = "ok") => Complete

C4_Witness ==
    /\ pc = "done" /\ outcome = "ok"
    /\ MarkerPaths \cap DOMAIN files0 # {}
    /\ MarkerPaths \cap written # {}

\* C5, as claimed: when the write of an artifact raised, the run has still
\* attempted every artifact and written every one but the failing one.
C5_Original ==
    (pc = "done" /\ failed \cap ArtPaths # {})
        => \A p \in ArtPaths : p \in failed \/ p \in written

\* C6, as claimed: after a first run (force off) that was terminated having
\* created something, the re-run with force off, unless an I/O error stops
\* it, ends with exit code 0 and the tree complete.
C6_Original ==
    (/\ run = "rerun" /\ prev.outcome = "killed" /\ ~prev.force
     /\ (prev.dirs # prev.dirs0 \/ prev.files # prev.files0)
     /\ ~force /\ pc = "done" /\ outcome # "error")
        => outcome = "ok" /\ Complete

LeftEntries ==
    /\ run = "rerun" /\ prev.outcome = "killed" /\ ~prev.force
    /\ HasEntry(prev.dirs, prev.files, Root(name))

\* C6, amended: after a first run (force off) that was terminated having
\* created an entry under the root, the re-run with force off is stopped by
\* the root guard and leaves the partial tree as it is; the re-run with
\* force on, when it ends with exit code 0, leaves the tree complete.
C6_Resume ==
    /\ (LeftEntries /\ ~force)
          => /\ dirs = prev.dirs /\ files = prev.files
             /\ pc = "guard" \/ (pc = "done" /\ outcome = "abort")
    /\ (LeftEntries /\ force /\ pc = "done" /\ outcome = "ok") => Complete

C6_Witness ==
    /\ LeftEntries /\ ~force
    /\ ~Complete
    /\ pc = "done" /\ outcome = "abort"

\* C7, as claimed: with an empty project name the run ends in a fatal
\* error before it looks at or changes the filesystem: it never gets past
\* its first statement, never succeeds, and creates nothing.
C7_Original ==
    name = ""
        => /\ pc \in {"guard", "done"}
           /\ outcome # "ok"
           /\ Unchanged

\* C8, as claimed: once write_init has handled a directory whose marker
\* existed before the run, the marker holds its old text when force is off
\* and the standard marker text when force is on.
C8_Original ==
    \A p \in MarkerPaths :
        (p \in DOMAIN files0 /\ p \in written \cup skipped)
            => files[p] = (IF force THEN MarkerText ELSE files0[p])

\* C9: in a run with force off that got past the root guard nothing is ever
\* skipped: the marker or artifact about to be handled does not exist yet.
C9_NoSkip ==
    (~force /\ pc # "guard" /\ outcome # "abort")
        => /\ skipped = {}
           /\ pc = "init" => ~Exists(dirs, files, InitFile(DirPath(name, i)))
           /\ pc = "file" => ~Exists(dirs, files, ArtPath(name, i))

C9_Witness ==
    /\ ~force /\ pc = "done" /\ outcome = "ok"
    /\ written = MarkerPaths \cup ArtPaths
    /\ Cardinality(written) = Len(DirList) + Len(Catalog(name))

\* C10: in every state of a run, whatever the force flag, every directory
\* and file that existed at the start still exists, and every such file
\* that is neither a marker nor an artifact holds the text it held.
C10_Frame ==
    LET targets == MarkerPaths \cup ArtPaths
    IN  /\ dirs0 \subseteq dirs
        /\ \A p \in DOMAIN files0 :
              /\ p \in DOMAIN files
              /\ p \notin targets => files[p] = files0[p]

C10_Witness ==
    /\ force /\ pc = "done" /\ outcome = "ok"
    /\ HasEntry(dirs0, files0, Root(name))
    /\ \E p \in DOMAIN files0 : p \notin MarkerPaths \cup ArtPaths
    /\ ArtPaths \subseteq written

====
